---- MODULE Spec2Model ----
(***************************************************************************)
(* bmad2vibe (src/main.go): the conversion pipeline of main(), phase by    *)
(* phase, over a source tree and a target store (the vibe home).           *)
(*                                                                         *)
(* Strings are sequences of one-character strings, so that the prefix,     *)
(* suffix, substring and split operations of the code are computed as the  *)
(* code computes them.  Tool names are never taken apart by the code and   *)
(* are plain strings.  A rendered document is a record of the values the   *)
(* code interpolates into its fixed text.                                  *)
(***************************************************************************)
EXTENDS Naturals, Sequences, FiniteSets, TLC

\* ------------------------------------------------------------- strings

Lower == <<"a", "b", "c", "d", "e", "f", "g", "h", "i", "j", "k", "l", "m", "n", "o", "p", "q", "r", "s", "t", "u", "v", "w", "x", "y", "z">>
Upper == <<"A", "B", "C", "D", "E", "F", "G", "H", "I", "J", "K", "L", "M", "N", "O", "P", "Q", "R", "S", "T", "U", "V", "W", "X", "Y", "Z">>

\* The characters of the model in byte order (the order of sort.Strings,
\* os.ReadDir and filepath.Walk).
ByteOrder == <<" ", "-", ".", "/", "0", "1", "2", "3", "4", "5", "6", "7", "8", "9", ":", "A", "B", "C", "D", "E", "F", "G", "H", "I", "J", "K", "L", "M", "N", "O", "P", "Q", "R", "S", "T", "U", "V", "W", "X", "Y", "Z", "_", "a", "b", "c", "d", "e", "f", "g", "h", "i", "j", "k", "l", "m", "n", "o", "p", "q", "r", "s", "t", "u", "v", "w", "x", "y", "z">>

CharRank(c) == CHOOSE i \in 1..Len(ByteOrder) : ByteOrder[i] = c

\* s < t, bytewise
RECURSIVE StrLess(_, _)
StrLess(s, t) ==
    IF t = <<>> THEN FALSE
    ELSE IF s = <<>> THEN TRUE
    ELSE IF s[1] = t[1] THEN StrLess(Tail(s), Tail(t))
    ELSE CharRank(s[1]) < CharRank(t[1])

UpperChar(c) ==
    IF \E i \in 1..Len(Lower) : Lower[i] = c
    THEN Upper[CHOOSE i \in 1..Len(Lower) : Lower[i] = c]
    ELSE c

LowerChar(c) ==
    IF \E i \in 1..Len(Upper) : Upper[i] = c
    THEN Lower[CHOOSE i \in 1..Len(Upper) : Upper[i] = c]
    ELSE c

ToUpper(s) == [i \in 1..Len(s) |-> UpperChar(s[i])]
ToLower(s) == [i \in 1..Len(s) |-> LowerChar(s[i])]

HasPrefix(s, p) == Len(p) <= Len(s) /\ SubSeq(s, 1, Len(p)) = p
HasSuffix(s, p) == Len(p) <= Len(s) /\ SubSeq(s, Len(s) - Len(p) + 1, Len(s)) = p
TrimPrefix(s, p) == IF HasPrefix(s, p) THEN SubSeq(s, Len(p) + 1, Len(s)) ELSE s
TrimSuffix(s, p) == IF HasSuffix(s, p) THEN SubSeq(s, 1, Len(s) - Len(p)) ELSE s
Contains(s, sub) ==
    \E i \in 0..Len(s) : i + Len(sub) <= Len(s) /\ SubSeq(s, i + 1, i + Len(sub)) = sub

\* strings.Split(s, sep) for a one-character separator: Split("", sep) = [""]
RECURSIVE SplitFrom(_, _, _)
SplitFrom(s, sep, cur) ==
    IF s = <<>> THEN <<cur>>
    ELSE IF s[1] = sep THEN <<cur>> \o SplitFrom(Tail(s), sep, <<>>)
    ELSE SplitFrom(Tail(s), sep, Append(cur, s[1]))

Split(s, sep) == SplitFrom(s, sep, <<>>)

\* strings.Join
RECURSIVE Join(_, _)
Join(parts, sep) ==
    IF parts = <<>> THEN <<>>
    ELSE IF Len(parts) = 1 THEN parts[1]
    ELSE parts[1] \o sep \o Join(Tail(parts), sep)

Separator == "/"

\* filepath.Dir of a clean relative path: all but the last element, "." if none
Dir(rel) ==
    IF \E i \in 1..Len(rel) : rel[i] = Separator
    THEN SubSeq(rel, 1, (CHOOSE i \in 1..Len(rel) :
                            /\ rel[i] = Separator
                            /\ \A j \in (i + 1)..Len(rel) : rel[j] # Separator) - 1)
    ELSE <<".">>

\* ------------------------------------------------ safety and tools tables

agentSafetyMap ==
    (<<"a", "n", "a", "l", "y", "s", "t">> :> <<"s", "a", "f", "e">>) @@ (<<"a", "r", "c", "h", "i", "t", "e", "c", "t">> :> <<"s", "a", "f", "e">>) @@ (<<"p", "m">> :> <<"s", "a", "f", "e">>)
    @@ (<<"s", "m">> :> <<"s", "a", "f", "e">>) @@ (<<"t", "e", "a">> :> <<"s", "a", "f", "e">>) @@ (<<"t", "e", "c", "h", "-", "w", "r", "i", "t", "e", "r">> :> <<"s", "a", "f", "e">>)
    @@ (<<"u", "x", "-", "d", "e", "s", "i", "g", "n", "e", "r">> :> <<"s", "a", "f", "e">>) @@ (<<"d", "e", "v">> :> <<"d", "e", "s", "t", "r", "u", "c", "t", "i", "v", "e">>)
    @@ (<<"q", "u", "i", "c", "k", "-", "f", "l", "o", "w", "-", "s", "o", "l", "o", "-", "d", "e", "v">> :> <<"d", "e", "s", "t", "r", "u", "c", "t", "i", "v", "e">>)
    @@ (<<"g", "a", "m", "e", "-", "d", "e", "v">> :> <<"d", "e", "s", "t", "r", "u", "c", "t", "i", "v", "e">>) @@ (<<"g", "a", "m", "e", "-", "s", "o", "l", "o", "-", "d", "e", "v">> :> <<"d", "e", "s", "t", "r", "u", "c", "t", "i", "v", "e">>)
    @@ (<<"g", "a", "m", "e", "-", "a", "r", "c", "h", "i", "t", "e", "c", "t">> :> <<"s", "a", "f", "e">>) @@ (<<"g", "a", "m", "e", "-", "d", "e", "s", "i", "g", "n", "e", "r">> :> <<"s", "a", "f", "e">>)
    @@ (<<"g", "a", "m", "e", "-", "s", "c", "r", "u", "m", "-", "m", "a", "s", "t", "e", "r">> :> <<"s", "a", "f", "e">>) @@ (<<"g", "a", "m", "e", "-", "q", "a">> :> <<"s", "a", "f", "e">>)
    @@ (<<"b", "r", "a", "i", "n", "s", "t", "o", "r", "m", "i", "n", "g", "-", "c", "o", "a", "c", "h">> :> <<"s", "a", "f", "e">>) @@ (<<"c", "r", "e", "a", "t", "i", "v", "e", "-", "p", "r", "o", "b", "l", "e", "m", "-", "s", "o", "l", "v", "e", "r">> :> <<"s", "a", "f", "e">>)
    @@ (<<"d", "e", "s", "i", "g", "n", "-", "t", "h", "i", "n", "k", "i", "n", "g", "-", "c", "o", "a", "c", "h">> :> <<"s", "a", "f", "e">>) @@ (<<"i", "n", "n", "o", "v", "a", "t", "i", "o", "n", "-", "s", "t", "r", "a", "t", "e", "g", "i", "s", "t">> :> <<"s", "a", "f", "e">>)
    @@ (<<"p", "r", "e", "s", "e", "n", "t", "a", "t", "i", "o", "n", "-", "m", "a", "s", "t", "e", "r">> :> <<"s", "a", "f", "e">>) @@ (<<"s", "t", "o", "r", "y", "t", "e", "l", "l", "e", "r">> :> <<"s", "a", "f", "e">>)
    @@ (<<"b", "m", "a", "d", "-", "b", "u", "i", "l", "d", "e", "r">> :> <<"d", "e", "s", "t", "r", "u", "c", "t", "i", "v", "e">>) @@ (<<"a", "g", "e", "n", "t", "-", "b", "u", "i", "l", "d", "e", "r">> :> <<"d", "e", "s", "t", "r", "u", "c", "t", "i", "v", "e">>)
    @@ (<<"m", "o", "d", "u", "l", "e", "-", "b", "u", "i", "l", "d", "e", "r">> :> <<"d", "e", "s", "t", "r", "u", "c", "t", "i", "v", "e">>) @@ (<<"w", "o", "r", "k", "f", "l", "o", "w", "-", "b", "u", "i", "l", "d", "e", "r">> :> <<"d", "e", "s", "t", "r", "u", "c", "t", "i", "v", "e">>)

safetyToolsMap ==
    (<<"s", "a", "f", "e">> :> <<"read_file", "grep", "list_dir", "ask_user_question">>)
    @@ (<<"n", "e", "u", "t", "r", "a", "l">> :> <<"read_file", "grep", "list_dir", "write_file",
                         "search_replace", "ask_user_question">>)
    @@ (<<"d", "e", "s", "t", "r", "u", "c", "t", "i", "v", "e">> :> <<"read_file", "grep", "list_dir", "write_file",
                             "search_replace", "bash", "ask_user_question", "task">>)

\* safetyToolsMap[safety]: a Go map read gives nil for a missing key
ToolsFor(safety) ==
    IF safety \in DOMAIN safetyToolsMap THEN safetyToolsMap[safety] ELSE <<>>

\* safetyForAgent with the manual-only tier as its default
safetyForAgent_DefaultYolo(slug) ==
    IF slug \in DOMAIN agentSafetyMap THEN agentSafetyMap[slug] ELSE <<"y", "o", "l", "o">>

\* safetyForAgent without the override table
safetyForAgent_IgnoresTable(slug) == <<"n", "e", "u", "t", "r", "a", "l">>

safetyForAgent(slug) ==
    IF slug \in DOMAIN agentSafetyMap THEN agentSafetyMap[slug] ELSE <<"n", "e", "u", "t", "r", "a", "l">>

workflowSafety(name) ==
    LET lower == ToLower(name)
    IN IF Contains(lower, <<"d", "e", "v">>) \/ Contains(lower, <<"i", "m", "p", "l", "e", "m", "e", "n", "t">>)
       THEN <<"d", "e", "s", "t", "r", "u", "c", "t", "i", "v", "e">>
       ELSE <<"n", "e", "u", "t", "r", "a", "l">>

\* ------------------------------------------------------------ identifiers

\* the loop keeping the segments that strip to nothing
RECURSIVE SlugParts_KeepsEmpty(_, _)
SlugParts_KeepsEmpty(slug, parts) ==
    IF parts = <<>> THEN slug
    ELSE LET p == TrimPrefix(TrimPrefix(parts[1], <<"w", "o", "r", "k", "f", "l", "o", "w", "-">>), <<"b", "m", "a", "d", "-">>)
         IN SlugParts_KeepsEmpty(IF p # <<".">> THEN slug \o <<"-">> \o p ELSE slug,
                                 Tail(parts))

\* the loop of buildSkillSlug over the segments of the directory
RECURSIVE SlugParts(_, _)
SlugParts(slug, parts) ==
    IF parts = <<>> THEN slug
    ELSE LET p == TrimPrefix(TrimPrefix(parts[1], <<"w", "o", "r", "k", "f", "l", "o", "w", "-">>), <<"b", "m", "a", "d", "-">>)
         IN SlugParts(IF p # <<".">> /\ p # <<>> THEN slug \o <<"-">> \o p ELSE slug,
                      Tail(parts))

buildSkillSlug(module, rel, name) ==
    LET dir == Dir(rel)
        parts == Split(dir, Separator)
        slug == SlugParts(<<"b", "m", "a", "d", "-">> \o module, parts)
    IN IF HasPrefix(name, <<"w", "o", "r", "k", "f", "l", "o", "w", "-">>)
       THEN slug \o <<"-">> \o TrimSuffix(TrimPrefix(name, <<"w", "o", "r", "k", "f", "l", "o", "w", "-">>), <<".", "m", "d">>)
       ELSE slug

\* fmt.Sprintf("bmad-%s-%s", module, slug)
BmadSlug(module, slug) == <<"b", "m", "a", "d", "-">> \o module \o <<"-">> \o slug

\* fmt.Sprintf("bmad-%s-task-%s", module, slug)
TaskSlug(module, slug) == <<"b", "m", "a", "d", "-">> \o module \o <<"-", "t", "a", "s", "k", "-">> \o slug

toTitle(s) ==
    LET spaced == [i \in 1..Len(s) |-> IF s[i] = "-" THEN " " ELSE s[i]]
    IN [i \in 1..Len(s) |->
          IF i = 1 \/ spaced[i - 1] = " " THEN UpperChar(spaced[i]) ELSE spaced[i]]

\* filter / unique of the report helpers
RECURSIVE unique(_)
unique(ss) ==
    IF ss = <<>> THEN <<>>
    ELSE LET init == SubSeq(ss, 1, Len(ss) - 1)
             last == ss[Len(ss)]
         IN IF \E i \in 1..Len(init) : init[i] = last
            THEN unique(init)
            ELSE Append(unique(init), last)

\* the order of filepath.Walk on paths given as their segments
RECURSIVE PathLess(_, _)
PathLess(p, q) ==
    IF q = <<>> THEN FALSE
    ELSE IF p = <<>> THEN TRUE
    ELSE IF p[1] = q[1] THEN PathLess(Tail(p), Tail(q))
    ELSE StrLess(p[1], q[1])

\* os.ReadDir: the names of a directory, sorted by file name
RECURSIVE SortNames(_)
SortNames(S) ==
    IF S = {} THEN <<>>
    ELSE LET m == CHOOSE a \in S : \A b \in S \ {a} : StrLess(a, b)
         IN <<m>> \o SortNames(S \ {m})

\* filepath.Walk: the files below a directory, in lexical order
RECURSIVE SortPaths(_)
SortPaths(S) ==
    IF S = {} THEN <<>>
    ELSE LET m == CHOOSE a \in S : \A b \in S \ {a} : PathLess(a, b)
         IN <<m>> \o SortPaths(S \ {m})

\* ------------------------------------------------------------- documents

NoDir == [exists |-> FALSE, entries |-> {}]
DirOf(entries) == [exists |-> TRUE, entries |-> entries]
NoFile == [exists |-> FALSE]
File(content) == [exists |-> TRUE, content |-> content]

\* extractXMLAttr: the attribute of the leading tag, "" without a tag end
extractXMLAttr(raw, attr) ==
    IF ~raw.tagEnd THEN <<>> ELSE raw.tag[attr]

extractAgentMeta(slug, raw) ==
    [Slug |-> slug,
     Name |-> extractXMLAttr(raw, "name"),
     Title |-> extractXMLAttr(raw, "title"),
     Icon |-> extractXMLAttr(raw, "icon"),
     Description |-> extractXMLAttr(raw, "description")]

buildAgentTOML(vibeSlug, module, meta, safety) ==
    LET tools == ToolsFor(safety)
        base == <<"B", "M", "A", "D", " ">> \o ToUpper(module) \o <<" ">> \o meta.Title
        displayName == IF meta.Name # <<>> /\ meta.Name # meta.Title
                       THEN base \o <<" ", "(">> \o meta.Name \o <<")">>
                       ELSE base
        desc == IF meta.Description = <<>>
                THEN <<"B", "M", "A", "D", " ">> \o ToUpper(module) \o <<" ", "a", "g", "e", "n", "t", ":", " ">> \o meta.Title
                ELSE meta.Description
    IN [header |-> "agent",
        comments |-> <<vibeSlug, module, meta.Icon, meta.Name>>,
        vals |-> [display_name |-> displayName,
                  description |-> desc,
                  safety |-> safety,
                  system_prompt_id |-> vibeSlug],
        bare |-> {"auto_approve", "enabled_tools"},
        auto_approve |-> (safety = <<"s", "a", "f", "e">>),
        enabled_tools |-> tools]

buildAgentPrompt(module, slug, meta, rawXML) ==
    [header |-> "agent",
     title |-> meta.Title,
     icon |-> meta.Icon,
     name |-> meta.Name,
     module |-> module,
     slug |-> slug,
     body |-> rawXML,
     small |-> FALSE]

\* ------------------------------------------------------------ the store

\* The target root (cfg.vibeHome): its sub-directories, agents/<slug>.toml,
\* prompts/<slug>.md, skills/<slug>/ (SKILL.md and copied files), AGENTS.md.
EmptyFn == [k \in {} |-> NoFile]

EmptyStore ==
    [dirs |-> {}, agents |-> EmptyFn, prompts |-> EmptyFn, skills |-> EmptyFn,
     index |-> NoFile]

Put(f, k, v) == (k :> v) @@ f

\* os.Stat(path) succeeds
fileExists(st, area, slug) ==
    CASE area = "agents" -> slug \in DOMAIN st.agents
      [] area = "prompts" -> slug \in DOMAIN st.prompts
      [] area = "skillfile" -> slug \in DOMAIN st.skills /\ st.skills[slug].doc.exists
      [] OTHER -> FALSE

\* a directory skills/<slug> exists
dirExists(st, slug) == slug \in DOMAIN st.skills

EmptyReport ==
    [agents |-> <<>>, prompts |-> <<>>, skills |-> <<>>, warnings |-> <<>>,
     errors |-> <<>>]

Message(kind, area, file, arg) ==
    [kind |-> kind, area |-> area, file |-> file, arg |-> arg]

\* The state the phases thread through: the store, the report, and the
\* (path, text) pairs handed to writeFile so far in this run.
warn(w, msg) == [w EXCEPT !.report.warnings = Append(@, msg)]
err(w, msg) == [w EXCEPT !.report.errors = Append(@, msg)]

\* os.MkdirAll(filepath.Join(cfg.vibeHome, "skills", slug))
MkdirAllSkill(flt, st, slug) ==
    IF "mkdir skill" \in flt.writes \/ slug \in DOMAIN st.skills
    THEN st
    ELSE [st EXCEPT !.dirs = @ \cup {"skills"},
                    !.skills = Put(@, slug, [doc |-> NoFile, aux |-> {}])]

\* os.MkdirAll(filepath.Dir(path)) and os.WriteFile(path) of writeFile
WriteStore(flt, st, area, slug, content) ==
    CASE area = "agents" ->
             [st EXCEPT !.dirs = @ \cup {"agents"}, !.agents = Put(@, slug, content)]
      [] area = "prompts" ->
             [st EXCEPT !.dirs = @ \cup {"prompts"}, !.prompts = Put(@, slug, content)]
      [] area = "skills" ->
             LET made == MkdirAllSkill(flt, st, slug)
             IN [made EXCEPT !.skills[slug].doc = File(content)]
      [] OTHER -> [st EXCEPT !.index = File(content)]

WriteFails(flt, area) ==
    CASE area = "agents" -> "write agents" \in flt.writes
      [] area = "prompts" -> "write prompts" \in flt.writes
      [] area = "skills" -> "mkdir skill" \in flt.writes \/ "write skill" \in flt.writes
      [] OTHER -> "write index" \in flt.writes

\* writeFile without its dry-run return
writeFile_IgnoresDryRun(c, flt, w, area, slug, content) ==
    LET seen == [w EXCEPT !.rendered = @ \cup {[area |-> area, id |-> slug,
                                               text |-> content]}]
    IN [seen EXCEPT !.store = WriteStore(flt, @, area, slug, content)]

writeFile(c, flt, w, area, slug, content) ==
    LET seen == [w EXCEPT !.rendered = @ \cup {[area |-> area, id |-> slug,
                                               text |-> content]}]
    IN IF c.dryRun THEN seen
       ELSE IF WriteFails(flt, area)
       THEN err([seen EXCEPT !.store =
                     IF area = "skills" THEN MkdirAllSkill(flt, @, slug)
                     ELSE IF area \in {"agents", "prompts"}
                     THEN [@ EXCEPT !.dirs = @ \cup {area}]
                     ELSE @],
                Message("write", area, slug, <<>>))
       ELSE [seen EXCEPT !.store = WriteStore(flt, @, area, slug, content)]

\* --------------------------------------------------- phase 1: persona agents

\* one iteration of the loop of convertAgents over the directory entries
ConvertAgentEntry(c, flt, w, module, e) ==
    IF e.isDir \/ ~HasSuffix(e.name, <<".", "x", "m", "l">>) THEN w
    ELSE LET slug == TrimSuffix(e.name, <<".", "x", "m", "l">>)
         IN IF e.name \in flt.personas
            THEN err(w, Message("agent read", module, slug, <<>>))
            ELSE LET meta == extractAgentMeta(slug, e.raw)
                     vibeSlug == BmadSlug(module, slug)
                     safety == safetyForAgent(slug)
                     toml == buildAgentTOML(vibeSlug, module, meta, safety)
                     prompt == buildAgentPrompt(module, slug, meta, e.raw)
                     w1 == writeFile(c, flt, w, "agents", vibeSlug, toml)
                     w2 == writeFile(c, flt, w1, "prompts", vibeSlug, prompt)
                 IN [w2 EXCEPT !.report.agents = Append(@, vibeSlug),
                               !.report.prompts = Append(@, vibeSlug)]

RECURSIVE ConvertAgentEntries(_, _, _, _, _, _)
ConvertAgentEntries(c, flt, w, module, dir, names) ==
    IF names = <<>> THEN w
    ELSE LET e == CHOOSE d \in dir : d.name = names[1]
         IN ConvertAgentEntries(c, flt, ConvertAgentEntry(c, flt, w, module, e),
                                module, dir, Tail(names))

convertAgents(c, flt, src, w, module) ==
    LET dir == src.bundles[module]
    IN IF ~dir.exists
       THEN warn(w, Message("no agents dir", "bundles", module, <<>>))
       ELSE ConvertAgentEntries(c, flt, w, module, dir.entries,
                                SortNames({d.name : d \in dir.entries}))

\* ------------------------------------------- phase 2: workflows to skills

\* the filter of the walks of phases 2 and 4 on a file's name
IsWorkflowFile(name) == HasPrefix(name, <<"w", "o", "r", "k", "f", "l", "o", "w">>) /\ HasSuffix(name, <<".", "m", "d">>)

\* filepath.Rel(workflowsDir, path) of a file given by its segments
Rel(path) == Join(path, <<Separator>>)

\* info.Name()
BaseName(path) == path[Len(path)]

buildWorkflowSkill(module, slug, content, steps, data, templates) ==
    [header |-> "workflow",
     name |-> slug,
     module |-> ToUpper(module),
     content |-> content,
     steps |-> steps,
     templates |-> templates,
     data |-> data]

\* the walk function of convertWorkflows on one file
ConvertWorkflowFile(c, flt, w, module, f) ==
    LET name == BaseName(f.path)
    IN IF ~IsWorkflowFile(name) THEN w
       ELSE LET rel == Rel(f.path)
                skillSlug == buildSkillSlug(module, rel, name)
            IN IF f.path \in flt.workflows
               THEN warn(w, Message("read workflow", module, rel, <<>>))
               ELSE LET skill == buildWorkflowSkill(module, skillSlug, f.content,
                                                    f.steps, f.data, f.templates)
                        made == IF c.dryRun THEN w
                                ELSE [w EXCEPT !.store = MkdirAllSkill(flt, @, skillSlug)]
                        w1 == writeFile(c, flt, made, "skills", skillSlug, skill)
                    IN [w1 EXCEPT !.report.skills = Append(@, skillSlug)]

RECURSIVE ConvertWorkflowFiles(_, _, _, _, _, _)
ConvertWorkflowFiles(c, flt, w, module, files, paths) ==
    IF paths = <<>> THEN w
    ELSE LET f == CHOOSE d \in files : d.path = paths[1]
         IN ConvertWorkflowFiles(c, flt, ConvertWorkflowFile(c, flt, w, module, f),
                                 module, files, Tail(paths))

convertWorkflows(c, flt, src, w, module) ==
    LET dir == src.method[module].workflows
    IN IF ~dir.exists
       THEN warn(w, Message("no workflows dir", "method", module, <<>>))
       ELSE ConvertWorkflowFiles(c, flt, w, module, dir.entries,
                                 SortPaths({d.path : d \in dir.entries}))

\* --------------------------------------------- phase 3: tasks to skills

ConvertTaskEntry(c, flt, w, module, e) ==
    IF e.isDir \/ ~HasSuffix(e.name, <<".", "m", "d">>) THEN w
    ELSE LET slug == TrimSuffix(e.name, <<".", "m", "d">>)
             skillSlug == TaskSlug(module, slug)
         IN IF e.name \in flt.tasks THEN w
            ELSE LET skill == [header |-> "task", name |-> skillSlug,
                               module |-> ToUpper(module), content |-> e.content]
                     made == IF c.dryRun THEN w
                             ELSE [w EXCEPT !.store = MkdirAllSkill(flt, @, skillSlug)]
                     w1 == writeFile(c, flt, made, "skills", skillSlug, skill)
                 IN [w1 EXCEPT !.report.skills = Append(@, skillSlug)]

RECURSIVE ConvertTaskEntries(_, _, _, _, _, _)
ConvertTaskEntries(c, flt, w, module, dir, names) ==
    IF names = <<>> THEN w
    ELSE LET e == CHOOSE d \in dir : d.name = names[1]
         IN ConvertTaskEntries(c, flt, ConvertTaskEntry(c, flt, w, module, e),
                               module, dir, Tail(names))

convertTasks(c, flt, src, w, module) ==
    LET dir == src.method[module].tasks
    IN IF ~dir.exists THEN w
       ELSE ConvertTaskEntries(c, flt, w, module, dir.entries,
                               SortNames({d.name : d \in dir.entries}))

\* ------------------------------------ phase 4: workflow shortcut agents

ShortcutTOML(module, skillSlug, agentSlug, title, safety) ==
    [header |-> "workflow shortcut",
     comments |-> <<skillSlug>>,
     vals |-> [display_name |-> <<"B", "M", "A", "D", " ">> \o title,
               description |-> <<"B", "M", "A", "D", " ">> \o ToUpper(module) \o <<" ", "w", "o", "r", "k", "f", "l", "o", "w", ":", " ">> \o title,
               safety |-> safety,
               system_prompt_id |-> agentSlug],
     bare |-> {"auto_approve", "enabled_tools"},
     auto_approve |-> (safety # <<"d", "e", "s", "t", "r", "u", "c", "t", "i", "v", "e">>),
     enabled_tools |-> ToolsFor(safety)]

ShortcutPrompt(title, skillSlug) ==
    [header |-> "workflow shortcut",
     title |-> title,
     skillSlug |-> skillSlug,
     small |-> FALSE]

\* the walk function without the test that the agent record exists
GenerateWorkflowAgent_Overwrites(c, flt, w, module, f) ==
    LET name == BaseName(f.path)
    IN IF ~IsWorkflowFile(name) THEN w
       ELSE LET rel == Rel(f.path)
                skillSlug == buildSkillSlug(module, rel, name)
                shortName == TrimPrefix(skillSlug, <<"b", "m", "a", "d", "-">> \o module \o <<"-">>)
                agentSlug == BmadSlug(module, shortName)
                title == toTitle(shortName)
                safety == workflowSafety(shortName)
                toml == ShortcutTOML(module, skillSlug, agentSlug, title, safety)
                prompt == ShortcutPrompt(title, skillSlug)
                w1 == writeFile(c, flt, w, "agents", agentSlug, toml)
                w2 == writeFile(c, flt, w1, "prompts", agentSlug, prompt)
            IN [w2 EXCEPT
                  !.report.agents = Append(@, agentSlug \o <<" ", "(", "w", "o", "r", "k", "f", "l", "o", "w", ")">>),
                  !.report.prompts = Append(@, agentSlug)]

\* the walk function of generateWorkflowAgents on one file
GenerateWorkflowAgent(c, flt, w, module, f) ==
    LET name == BaseName(f.path)
    IN IF ~IsWorkflowFile(name) THEN w
       ELSE LET rel == Rel(f.path)
                skillSlug == buildSkillSlug(module, rel, name)
                shortName == TrimPrefix(skillSlug, <<"b", "m", "a", "d", "-">> \o module \o <<"-">>)
                agentSlug == BmadSlug(module, shortName)
            IN IF fileExists(w.store, "agents", agentSlug) THEN w
               ELSE LET title == toTitle(shortName)
                        safety == workflowSafety(shortName)
                        toml == ShortcutTOML(module, skillSlug, agentSlug, title, safety)
                        prompt == ShortcutPrompt(title, skillSlug)
                        w1 == writeFile(c, flt, w, "agents", agentSlug, toml)
                        w2 == writeFile(c, flt, w1, "prompts", agentSlug, prompt)
                    IN [w2 EXCEPT
                          !.report.agents = Append(@, agentSlug \o <<" ", "(", "w", "o", "r", "k", "f", "l", "o", "w", ")">>),
                          !.report.prompts = Append(@, agentSlug)]

RECURSIVE GenerateWorkflowAgentFiles(_, _, _, _, _, _)
GenerateWorkflowAgentFiles(c, flt, w, module, files, paths) ==
    IF paths = <<>> THEN w
    ELSE LET f == CHOOSE d \in files : d.path = paths[1]
         IN GenerateWorkflowAgentFiles(c, flt,
                                       GenerateWorkflowAgent(c, flt, w, module, f),
                                       module, files, Tail(paths))

generateWorkflowAgents(c, flt, src, w, module) ==
    LET dir == src.method[module].workflows
    IN IF ~dir.exists THEN w
       ELSE GenerateWorkflowAgentFiles(c, flt, w, module, dir.entries,
                                       SortPaths({d.path : d \in dir.entries}))

\* ------------------------------------------- phase 5: supporting data

SubName(sub) == IF sub = "data" THEN <<"d", "a", "t", "a">> ELSE <<"d", "o", "c", "s">>

\* copyDir(src, dest): dest and the files of src below it
copyDir(st, dest, sub) ==
    IF dest \in DOMAIN st.skills
    THEN [st EXCEPT !.skills[dest].aux = @ \cup {sub}]
    ELSE [st EXCEPT !.dirs = @ \cup {"skills"},
                    !.skills = Put(@, dest, [doc |-> NoFile, aux |-> {sub}])]

CopySub(c, flt, src, w, module, sub) ==
    IF sub \notin src.method[module].subs THEN w
    ELSE LET dest == BmadSlug(module, SubName(sub))
         IN IF c.dryRun THEN w
            ELSE IF "copy data" \in flt.writes
            THEN warn(w, Message("copy", sub, module, <<>>))
            ELSE [w EXCEPT !.store = copyDir(@, dest, sub)]

copyModuleData(c, flt, src, w, module) ==
    CopySub(c, flt, src, CopySub(c, flt, src, w, module, "data"), module, "docs")

\* ------------------------------------------------ reading documents back

\* extractTOMLVal: the first key = "value" of the text, "" when there is none
extractTOMLVal(content, key) ==
    IF key \in DOMAIN content.vals THEN content.vals[key] ELSE <<>>

\* every value the text of an agent record interpolates
TOMLTexts(content) ==
    {content.comments[i] : i \in 1..Len(content.comments)}
        \cup {content.vals[k] : k \in DOMAIN content.vals}

\* strings.Contains(content, "workflow shortcut")
HasShortcutMarker(content) ==
    \/ content.header = "workflow shortcut"
    \/ \E t \in TOMLTexts(content) : Contains(t, <<"w", "o", "r", "k", "f", "l", "o", "w", " ", "s", "h", "o", "r", "t", "c", "u", "t">>)

KeyChars(f) ==
    CASE f = "display_name" -> <<"d", "i", "s", "p", "l", "a", "y", "_", "n", "a", "m", "e">>
      [] f = "description" -> <<"d", "e", "s", "c", "r", "i", "p", "t", "i", "o", "n">>
      [] f = "safety" -> <<"s", "a", "f", "e", "t", "y">>
      [] OTHER -> <<"e", "n", "a", "b", "l", "e", "d", "_", "t", "o", "o", "l", "s">>

\* strings.Contains(c, f+" =") || strings.Contains(c, f+"=")
HasField(content, f) ==
    \/ f \in DOMAIN content.vals \cup content.bare
    \/ \E t \in TOMLTexts(content) :
          Contains(t, KeyChars(f) \o <<" ", "=">>) \/ Contains(t, KeyChars(f) \o <<"=">>)

\* the first match of "Skill slug: `([^`]+)`" in a prompt, "" when none
SkillPointer(prompt) ==
    CASE prompt.header = "workflow shortcut" -> prompt.skillSlug
      [] prompt.header = "agent" -> prompt.body.pointer
      [] OTHER -> prompt.pointer

\* filepath.Glob(dir/bmad-*): the matching names, sorted
GlobBmad(files) == SortNames({k \in DOMAIN files : HasPrefix(k, <<"b", "m", "a", "d", "-">>)})

\* ------------------------------------------------- phase 6: AGENTS.md

AgentRow(st, slug) ==
    [dn |-> extractTOMLVal(st.agents[slug], "display_name"),
     slug |-> slug,
     desc |-> extractTOMLVal(st.agents[slug], "description")]

RECURSIVE AgentRows(_, _, _)
AgentRows(st, names, shortcut) ==
    IF names = <<>> THEN <<>>
    ELSE IF HasShortcutMarker(st.agents[names[1]]) = shortcut
    THEN <<AgentRow(st, names[1])>> \o AgentRows(st, Tail(names), shortcut)
    ELSE AgentRows(st, Tail(names), shortcut)

\* generateAgentsMD adding its rows to the AGENTS.md already there
generateAgentsMD_Appends(c, flt, w) ==
    IF c.dryRun THEN w
    ELSE IF "agents" \notin w.store.dirs THEN w
    ELSE LET names == SortNames(DOMAIN w.store.agents)
             old == IF w.store.index.exists THEN w.store.index.content
                    ELSE [persona |-> <<>>, workflow |-> <<>>]
             text == [persona |-> old.persona \o AgentRows(w.store, names, FALSE),
                      workflow |-> old.workflow \o AgentRows(w.store, names, TRUE)]
         IN writeFile(c, flt, w, "index", <<"A", "G", "E", "N", "T", "S", ".", "m", "d">>, text)

\* generateAgentsMD listing only the files named bmad-*.toml
generateAgentsMD_GlobbedOnly(c, flt, w) ==
    IF c.dryRun THEN w
    ELSE IF "agents" \notin w.store.dirs THEN w
    ELSE LET names == GlobBmad(w.store.agents)
             text == [persona |-> AgentRows(w.store, names, FALSE),
                      workflow |-> AgentRows(w.store, names, TRUE)]
         IN writeFile(c, flt, w, "index", <<"A", "G", "E", "N", "T", "S", ".", "m", "d">>, text)

generateAgentsMD(c, flt, w) ==
    IF c.dryRun THEN w
    ELSE IF "agents" \notin w.store.dirs THEN w
    ELSE LET names == SortNames(DOMAIN w.store.agents)
             text == [persona |-> AgentRows(w.store, names, FALSE),
                      workflow |-> AgentRows(w.store, names, TRUE)]
         IN writeFile(c, flt, w, "index", <<"A", "G", "E", "N", "T", "S", ".", "m", "d">>, text)

\* ------------------------------------------------- phase 7: validation

ValidSafety == {<<"s", "a", "f", "e">>, <<"n", "e", "u", "t", "r", "a", "l">>, <<"d", "e", "s", "t", "r", "u", "c", "t", "i", "v", "e">>, <<"y", "o", "l", "o">>}

RequiredFields == <<"display_name", "description", "safety", "enabled_tools">>

\* the errors of the loop over the mandatory fields of one agent record
RECURSIVE CheckFields(_, _, _)
CheckFields(base, content, fields) ==
    IF fields = <<>> THEN <<>>
    ELSE (IF HasField(content, fields[1]) THEN <<>>
          ELSE <<Message("missing field", "agents", base, KeyChars(fields[1]))>>)
         \o CheckFields(base, content, Tail(fields))

\* check 1 on one agent record: the errors it reports, in order
CheckAgent(st, base) ==
    LET content == st.agents[base]
        pid == extractTOMLVal(content, "system_prompt_id")
        safety == extractTOMLVal(content, "safety")
    IN IF pid = <<>>
       THEN <<Message("missing system_prompt_id", "agents", base, <<>>)>>
       ELSE (IF fileExists(st, "prompts", pid) THEN <<>>
             ELSE <<Message("prompt not found", "agents", base, pid)>>)
            \o CheckFields(base, content, RequiredFields)
            \o (IF safety \in ValidSafety THEN <<>>
                ELSE <<Message("invalid safety", "agents", base, safety)>>)

RECURSIVE CheckAgents(_, _)
CheckAgents(st, names) ==
    IF names = <<>> THEN <<>>
    ELSE CheckAgent(st, names[1]) \o CheckAgents(st, Tail(names))

\* check 2, the warnings of the prompts with info.Size() < 50
RECURSIVE CheckPromptSizes(_, _)
CheckPromptSizes(st, names) ==
    IF names = <<>> THEN <<>>
    ELSE (IF st.prompts[names[1]].small
          THEN <<Message("small prompt", "prompts", names[1], <<>>)>>
          ELSE <<>>)
         \o CheckPromptSizes(st, Tail(names))

\* check 3
RECURSIVE CheckOrphans(_, _)
CheckOrphans(st, names) ==
    IF names = <<>> THEN <<>>
    ELSE (IF fileExists(st, "agents", names[1]) THEN <<>>
          ELSE <<Message("orphaned prompt", "prompts", names[1], <<>>)>>)
         \o CheckOrphans(st, Tail(names))

\* check 4
RECURSIVE CheckSkillDirs(_, _)
CheckSkillDirs(st, names) ==
    IF names = <<>> THEN <<>>
    ELSE (IF /\ HasPrefix(names[1], <<"b", "m", "a", "d", "-">>)
             /\ ~fileExists(st, "skillfile", names[1])
             /\ ~HasSuffix(names[1], <<"-", "d", "a", "t", "a">>)
             /\ ~HasSuffix(names[1], <<"-", "d", "o", "c", "s">>)
          THEN <<Message("missing SKILL.md", "skills", names[1], <<>>)>>
          ELSE <<>>)
         \o CheckSkillDirs(st, Tail(names))

\* check 5 taking the prompt identifier for the skill when the prompt is missing
CheckShortcut_ReportsMissingPrompt(st, base) ==
    LET content == st.agents[base]
        pid == extractTOMLVal(content, "system_prompt_id")
        m == IF fileExists(st, "prompts", pid)
             THEN SkillPointer(st.prompts[pid])
             ELSE pid
    IN IF ~HasShortcutMarker(content) THEN <<>>
       ELSE IF m # <<>> /\ ~dirExists(st, m)
       THEN <<Message("skill not found", "agents", base, m)>>
       ELSE <<>>

\* check 5 on one agent record
CheckShortcut(st, base) ==
    LET content == st.agents[base]
        pid == extractTOMLVal(content, "system_prompt_id")
        m == IF fileExists(st, "prompts", pid)
             THEN SkillPointer(st.prompts[pid])
             ELSE <<>>
    IN IF ~HasShortcutMarker(content) THEN <<>>
       ELSE IF m # <<>> /\ ~dirExists(st, m)
       THEN <<Message("skill not found", "agents", base, m)>>
       ELSE <<>>

RECURSIVE CheckShortcuts(_, _)
CheckShortcuts(st, names) ==
    IF names = <<>> THEN <<>>
    ELSE CheckShortcut(st, names[1]) \o CheckShortcuts(st, Tail(names))

\* validate reads the store and only adds to the report: the errors of
\* checks 1 and 5 and the warnings of checks 2, 3 and 4, in that order
validate(c, w) ==
    IF c.dryRun THEN w
    ELSE LET st == w.store
             tomlFiles == GlobBmad(st.agents)
             promptFiles == GlobBmad(st.prompts)
         IN [w EXCEPT
               !.report.errors = @ \o CheckAgents(st, tomlFiles)
                                   \o CheckShortcuts(st, tomlFiles),
               !.report.warnings =
                   @ \o CheckPromptSizes(st, promptFiles)
                     \o CheckOrphans(st, promptFiles)
                     \o (IF "skills" \in st.dirs
                         THEN CheckSkillDirs(st, SortNames(DOMAIN st.skills))
                         ELSE <<>>)]

\* ------------------------------------------------------------ the report

RECURSIVE filter(_, _)
filter(ss, workflow) ==
    IF ss = <<>> THEN <<>>
    ELSE IF Contains(ss[1], <<"(", "w", "o", "r", "k", "f", "l", "o", "w", ")">>) = workflow
    THEN <<ss[1]>> \o filter(Tail(ss), workflow)
    ELSE filter(Tail(ss), workflow)

\* printReport exiting 1 on warnings too
printReport_ExitsOnWarnings(rep) ==
    LET agents == unique(rep.agents)
        skills == unique(rep.skills)
    IN [persona |-> Len(filter(agents, FALSE)),
        workflow |-> Len(filter(agents, TRUE)),
        skills |-> Len(skills),
        warnings |-> Len(rep.warnings),
        errors |-> Len(rep.errors),
        code |-> IF Len(rep.errors) > 0 \/ Len(rep.warnings) > 0 THEN 1 ELSE 0]

\* printReport: the counts it prints and the exit status
printReport(rep) ==
    LET agents == unique(rep.agents)
        skills == unique(rep.skills)
    IN [persona |-> Len(filter(agents, FALSE)),
        workflow |-> Len(filter(agents, TRUE)),
        skills |-> Len(skills),
        warnings |-> Len(rep.warnings),
        errors |-> Len(rep.errors),
        code |-> IF Len(rep.errors) > 0 THEN 1 ELSE 0]

\* ------------------------------------------------------- the source trees

Xml(name, title, icon, description, pointer) ==
    [tagEnd |-> TRUE,
     tag |-> [name |-> name, title |-> title, icon |-> icon,
              description |-> description],
     pointer |-> pointer]

Entry(name, raw) == [name |-> name, isDir |-> FALSE, raw |-> raw]

AnalystXml == Entry(<<"a", "n", "a", "l", "y", "s", "t", ".", "x", "m", "l">>, Xml(<<>>, <<"A", "n", "a", "l", "y", "s", "t">>, <<>>, <<>>, <<>>))
DevXml ==
    Entry(<<"d", "e", "v", ".", "x", "m", "l">>,
          Xml(<<"A", "m", "e", "l", "i", "a">>, <<"D", "e", "v", "e", "l", "o", "p", "e", "r">>, <<"D">>, <<"I", "m", "p", "l", "e", "m", "e", "n", "t", "s", " ", "s", "t", "o", "r", "i", "e", "s">>, <<>>))
\* a persona whose description mentions workflow shortcuts and whose body
\* quotes a skill slug line
HelperXml ==
    Entry(<<"h", "e", "l", "p", "e", "r", ".", "x", "m", "l">>,
          Xml(<<>>, <<"H", "e", "l", "p", "e", "r">>, <<>>, <<"E", "x", "p", "l", "a", "i", "n", "s", " ", "e", "a", "c", "h", " ", "w", "o", "r", "k", "f", "l", "o", "w", " ", "s", "h", "o", "r", "t", "c", "u", "t">>,
              <<"b", "m", "a", "d", "-", "b", "m", "m", "-", "g", "h", "o", "s", "t">>))
NotesTxt == Entry(<<"n", "o", "t", "e", "s", ".", "t", "x", "t">>, Xml(<<>>, <<>>, <<>>, <<>>, <<>>))

PersonaCatalogue == {DevXml, HelperXml, NotesTxt}

Workflow(path, content, steps, templates) ==
    [path |-> path, content |-> content, steps |-> steps, data |-> <<>>,
     templates |-> templates]

WorkflowCatalogue ==
    {Workflow(<<<<"d", "e", "v">>, <<"w", "o", "r", "k", "f", "l", "o", "w", ".", "m", "d">>>>, "dev", <<>>, <<>>),
     Workflow(<<<<"p", "m">>, <<"w", "o", "r", "k", "f", "l", "o", "w", ".", "m", "d">>>>, "pm", <<"step-01.md">>, <<>>),
     Workflow(<<<<"p", "m">>, <<"n", "o", "t", "e", "s", ".", "m", "d">>>>, "notes", <<>>, <<>>),
     Workflow(<<<<"w", "o", "r", "k", "f", "l", "o", "w", ".", "m", "d">>>>, "root", <<>>, <<>>),
     Workflow(<<<<"a">>, <<"b">>, <<"w", "o", "r", "k", "f", "l", "o", "w", ".", "m", "d">>>>, "a/b", <<>>, <<>>),
     Workflow(<<<<"a", "-", "b">>, <<"w", "o", "r", "k", "f", "l", "o", "w", ".", "m", "d">>>>, "a-b", <<>>, <<"template.md">>)}

ShardDoc == [name |-> <<"s", "h", "a", "r", "d", "-", "d", "o", "c", ".", "m", "d">>, isDir |-> FALSE, content |-> "shard-doc"]

MaxPersonas == 2
MaxWorkflows == 2

Bmm == <<"b", "m", "m">>
Demo == <<"d", "e", "m", "o">>

AgentDirs ==
    {NoDir} \cup {DirOf(S) : S \in {T \in SUBSET PersonaCatalogue :
                                       Cardinality(T) <= MaxPersonas}}

WorkflowDirs ==
    {NoDir} \cup {DirOf(S) : S \in {T \in SUBSET WorkflowCatalogue :
                                       Cardinality(T) <= MaxWorkflows}}

\* a module with tasks and data around any of the workflow trees, and a
\* module with nothing but an absent or empty workflows directory
MethodTrees ==
    {[workflows |-> wd, tasks |-> DirOf({ShardDoc}), subs |-> {"data", "docs"}] :
        wd \in WorkflowDirs}
    \cup {[workflows |-> wd, tasks |-> NoDir, subs |-> {}] : wd \in {NoDir, DirOf({})}}

DemoMethod ==
    [workflows |-> DirOf({Workflow(<<<<"p", "l", "a", "n", "n", "i", "n", "g">>, <<"w", "o", "r", "k", "f", "l", "o", "w", "-", "c", "r", "e", "a", "t", "e", "-", "s", "p", "e", "c", ".", "m", "d">>>>,
                                   "create-spec", <<>>, <<>>),
                          Workflow(<<<<"w", "o", "r", "k", "f", "l", "o", "w", "-", "b", "m", "a", "d", "-", "c", "o", "r", "e">>, <<"b", "m", "a", "d", "-">>,
                                     <<"w", "o", "r", "k", "f", "l", "o", "w", "-", "p", "l", "a", "n", ".", "m", "d">>>>,
                                   "plan", <<>>, <<>>)}),
     tasks |-> NoDir,
     subs |-> {}]

\* the source trees: module bmm varies, module demo is one small tree
Sources ==
    {[bundles |-> (Bmm :> ad) @@ (Demo :> DirOf({AnalystXml})),
      method |-> (Bmm :> mt) @@ (Demo :> DemoMethod)] :
        ad \in AgentDirs, mt \in MethodTrees}

\* ------------------------------------------------------- the environment

NoFaults == [personas |-> {}, workflows |-> {}, tasks |-> {}, writes |-> {}]

ReadFaults ==
    {[NoFaults EXCEPT !.personas = {<<"d", "e", "v", ".", "x", "m", "l">>}],
     [NoFaults EXCEPT !.workflows = {<<<<"p", "m">>, <<"w", "o", "r", "k", "f", "l", "o", "w", ".", "m", "d">>>>}],
     [NoFaults EXCEPT !.tasks = {<<"s", "h", "a", "r", "d", "-", "d", "o", "c", ".", "m", "d">>}]}

WriteFaults ==
    {[NoFaults EXCEPT !.writes = {"write agents"}],
     [NoFaults EXCEPT !.writes = {"write prompts"}],
     [NoFaults EXCEPT !.writes = {"mkdir skill"}],
     [NoFaults EXCEPT !.writes = {"write skill"}],
     [NoFaults EXCEPT !.writes = {"write index"}],
     [NoFaults EXCEPT !.writes = {"copy data"}]}

FaultCatalogue == ReadFaults \cup WriteFaults

\* a store left by hand: an agent record whose prompt does not exist
ManualAgent ==
    [header |-> "manual",
     comments |-> <<>>,
     vals |-> [display_name |-> <<"C", "u", "s", "t", "o", "m">>, description |-> <<"H", "a", "n", "d", " ", "w", "r", "i", "t", "t", "e", "n">>,
               safety |-> <<"y", "o", "l", "o">>, system_prompt_id |-> <<"b", "m", "a", "d", "-", "d", "e", "m", "o", "-", "g", "h", "o", "s", "t">>],
     bare |-> {"auto_approve", "enabled_tools"},
     auto_approve |-> FALSE,
     enabled_tools |-> <<"read_file">>]

\* the same record tagged as a workflow shortcut by a comment line
LostShortcut ==
    [ManualAgent EXCEPT !.comments = <<<<"l", "e", "g", "a", "c", "y", " ", "w", "o", "r", "k", "f", "l", "o", "w", " ", "s", "h", "o", "r", "t", "c", "u", "t">>>>,
                        !.vals.safety = <<"n", "e", "u", "t", "r", "a", "l">>]

\* a tagged record whose prompt exists and quotes no skill slug
LegacyShortcut ==
    [LostShortcut EXCEPT !.vals.system_prompt_id = <<"b", "m", "a", "d", "-", "b", "m", "m", "-", "l", "e", "g", "a", "c", "y">>]

LegacyPrompt == [header |-> "manual", pointer |-> <<>>, small |-> FALSE]

\* a record without system_prompt_id, description and enabled_tools, whose
\* safety is no tier
BrokenAgent ==
    [header |-> "manual",
     comments |-> <<>>,
     vals |-> [display_name |-> <<"B", "r", "o", "k", "e", "n">>, safety |-> <<"r", "o", "o", "t">>],
     bare |-> {"auto_approve"},
     auto_approve |-> FALSE,
     enabled_tools |-> <<>>]

\* the same record with a system_prompt_id, of a prompt that does not exist
OddAgent ==
    [BrokenAgent EXCEPT !.vals = [display_name |-> <<"O", "d", "d">>, safety |-> <<"r", "o", "o", "t">>,
                                  system_prompt_id |-> <<"b", "m", "a", "d", "-", "d", "e", "m", "o", "-", "g", "h", "o", "s", "t">>]]

\* a vibe home in use: agent records written by hand, under names the
\* validator globs (bmad-*) and under one it does not
UsedStore ==
    [EmptyStore EXCEPT
        !.dirs = {"agents", "prompts", "skills"},
        !.agents = (<<"b", "m", "a", "d", "-", "b", "m", "m", "-", "c", "u", "s", "t", "o", "m">> :> ManualAgent)
                   @@ (<<"c", "u", "s", "t", "o", "m">> :> ManualAgent)
                   @@ (<<"b", "m", "a", "d", "-", "b", "m", "m", "-", "l", "o", "s", "t">> :> LostShortcut)
                   @@ (<<"b", "m", "a", "d", "-", "b", "m", "m", "-", "l", "e", "g", "a", "c", "y">> :> LegacyShortcut)
                   @@ (<<"b", "m", "a", "d", "-", "b", "m", "m", "-", "b", "r", "o", "k", "e", "n">> :> BrokenAgent)
                   @@ (<<"b", "m", "a", "d", "-", "b", "m", "m", "-", "o", "d", "d">> :> OddAgent)
                   @@ (<<"b", "m", "a", "d", "-", "b", "m", "m", "-", "p", "m">> :> ManualAgent),
        !.prompts = (<<"b", "m", "a", "d", "-", "b", "m", "m", "-", "l", "e", "g", "a", "c", "y">> :> LegacyPrompt)]

\* the runs of the program against one store: the -dry-run flag of each
Environments ==
    {[store |-> s, faults |-> NoFaults, plan |-> p] :
        s \in {EmptyStore, UsedStore}, p \in {<<TRUE, FALSE>>, <<FALSE, FALSE>>}}
    \cup {[store |-> EmptyStore, faults |-> f, plan |-> <<d>>] :
            f \in ReadFaults, d \in BOOLEAN}
    \cup {[store |-> EmptyStore, faults |-> f, plan |-> <<FALSE>>] :
            f \in WriteFaults}

\* ------------------------------------------------------------ the pipeline

VARIABLES
    source,     \* the bundles and method trees (bDir, mDir)
    cfg,        \* config: modules, dryRun
    faults,     \* the reads and writes that fail
    plan,       \* the -dry-run flags of the runs still to come
    store,      \* the target root
    report,     \* conversionReport
    rendered,   \* the (path, text) pairs handed to writeFile in this run
    pc,         \* the step of main() to execute next
    mi,         \* the index in cfg.modules of the phase's loop
    outcome,    \* what printReport printed and the exit status
    startStore, \* the store when this run started
    prev        \* the previous run: its flag, its stores, what it rendered

vars == <<source, cfg, faults, plan, store, report, rendered, pc, mi, outcome,
          startStore, prev>>

NoOutcome ==
    [persona |-> 0, workflow |-> 0, skills |-> 0, warnings |-> 0, errors |-> 0,
     code |-> 0]

NoPrev ==
    [ran |-> FALSE, dryRun |-> FALSE, startStore |-> EmptyStore,
     store |-> EmptyStore, rendered |-> {}, report |-> EmptyReport]

Init ==
    \E src \in Sources, env \in Environments :
        /\ source = src
        /\ cfg = [modules |-> <<Bmm, Demo>>, dryRun |-> Head(env.plan)]
        /\ faults = env.faults
        /\ plan = Tail(env.plan)
        /\ store = env.store
        /\ startStore = env.store
        /\ report = EmptyReport
        /\ rendered = {}
        /\ pc = "ensureDirs"
        /\ mi = 1
        /\ outcome = NoOutcome
        /\ prev = NoPrev

World == [store |-> store, report |-> report, rendered |-> rendered]

Becomes(w) ==
    /\ store' = w.store
    /\ report' = w.report
    /\ rendered' = w.rendered

\* the loop "for _, mod := range cfg.modules" of a phase: the next module,
\* or the next phase after the last one
NextModule(phase) ==
    IF mi < Len(cfg.modules)
    THEN pc' = pc /\ mi' = mi + 1
    ELSE pc' = phase /\ mi' = 1

Fixed == UNCHANGED <<source, cfg, faults, plan, outcome, startStore, prev>>

\* ensureDirs(cfg, "agents", "prompts", "skills")
EnsureDirs ==
    /\ pc = "ensureDirs"
    /\ store' = IF cfg.dryRun THEN store
                ELSE [store EXCEPT !.dirs = @ \cup {"agents", "prompts", "skills"}]
    /\ pc' = "agents"
    /\ UNCHANGED <<report, rendered, mi>>
    /\ Fixed

ConvertAgents ==
    /\ pc = "agents"
    /\ Becomes(convertAgents(cfg, faults, source, World, cfg.modules[mi]))
    /\ NextModule("workflows")
    /\ Fixed

ConvertWorkflows ==
    /\ pc = "workflows"
    /\ Becomes(convertWorkflows(cfg, faults, source, World, cfg.modules[mi]))
    /\ NextModule("tasks")
    /\ Fixed

ConvertTasks ==
    /\ pc = "tasks"
    /\ Becomes(convertTasks(cfg, faults, source, World, cfg.modules[mi]))
    /\ NextModule("shortcuts")
    /\ Fixed

GenerateWorkflowAgents ==
    /\ pc = "shortcuts"
    /\ Becomes(generateWorkflowAgents(cfg, faults, source, World, cfg.modules[mi]))
    /\ NextModule("copy")
    /\ Fixed

CopyModuleData ==
    /\ pc = "copy"
    /\ Becomes(copyModuleData(cfg, faults, source, World, cfg.modules[mi]))
    /\ NextModule("index")
    /\ Fixed

GenerateAgentsMD ==
    /\ pc = "index"
    /\ Becomes(generateAgentsMD(cfg, faults, World))
    /\ pc' = "validate"
    /\ UNCHANGED mi
    /\ Fixed

Validate ==
    /\ pc = "validate"
    /\ Becomes(validate(cfg, World))
    /\ pc' = "report"
    /\ UNCHANGED mi
    /\ Fixed

PrintReport ==
    /\ pc = "report"
    /\ outcome' = printReport(report)
    /\ pc' = "exited"
    /\ UNCHANGED <<source, cfg, faults, plan, store, report, rendered, mi,
                   startStore, prev>>

\* the program is run again on the same sources and the same store
StartRun ==
    /\ pc = "exited"
    /\ plan # <<>>
    /\ cfg' = [cfg EXCEPT !.dryRun = Head(plan)]
    /\ plan' = Tail(plan)
    /\ prev' = [ran |-> TRUE, dryRun |-> cfg.dryRun, startStore |-> startStore,
                store |-> store, rendered |-> rendered, report |-> report]
    /\ startStore' = store
    /\ report' = EmptyReport
    /\ rendered' = {}
    /\ outcome' = NoOutcome
    /\ pc' = "ensureDirs"
    /\ mi' = 1
    /\ UNCHANGED <<source, faults, store>>

Next ==
    \/ EnsureDirs
    \/ ConvertAgents
    \/ ConvertWorkflows
    \/ ConvertTasks
    \/ GenerateWorkflowAgents
    \/ CopyModuleData
    \/ GenerateAgentsMD
    \/ Validate
    \/ PrintReport
    \/ StartRun

Spec == Init /\ [][Next]_vars

\* ------------------------------------------------------------- the claims

Exited == pc = "exited"

\* a persisting run into a fresh store with no I/O failure
CleanRun == ~cfg.dryRun /\ startStore = EmptyStore /\ faults = NoFaults

Rendered(area) == {r \in rendered : r.area = area}

\* the agent records the phases rendered: persona agents, shortcut agents
PersonaRecords == {r \in Rendered("agents") : r.text.header = "agent"}
ShortcutRecords == {r \in Rendered("agents") : r.text.header = "workflow shortcut"}

ValidatorKinds ==
    {"missing system_prompt_id", "prompt not found", "missing field",
     "invalid safety", "skill not found"}

Errors(kinds) == {i \in 1..Len(report.errors) : report.errors[i].kind \in kinds}

\* C1 as stated: the process exits 0 iff the validator reported no error.
C1_ExitIffValidatorClean ==
    Exited => (outcome.code = 0 <=> Errors(ValidatorKinds) = {})

\* C1 amended: the process exits 0 iff the report holds no error, whichever
\* phase recorded it; the warnings do not count.
C1_ExitIffNoErrors ==
    Exited => (outcome.code = 0 <=> report.errors = <<>>)

C1_Witness ==
    Exited /\ outcome.code = 0 /\ report.warnings # <<>> /\ ~cfg.dryRun

\* C2: after a clean persisting run every rendered agent record names an
\* existing prompt, every shortcut agent's prompt names an existing skill
\* directory, and validate reported neither kind of dangling reference.
C2_ReferentialClosure ==
    (Exited /\ CleanRun) =>
        /\ \A r \in Rendered("agents") :
              fileExists(store, "prompts", r.text.vals.system_prompt_id)
        /\ \A r \in ShortcutRecords :
              LET pid == r.text.vals.system_prompt_id
              IN /\ fileExists(store, "prompts", pid)
                 /\ dirExists(store, SkillPointer(store.prompts[pid]))
        /\ Errors({"prompt not found", "skill not found"}) = {}

\* C3: in every rendered agent record auto_approve is true iff the tier is
\* safe.
C3_AutoApproveIffSafe ==
    \A r \in Rendered("agents") :
        r.text.auto_approve <=> (r.text.vals.safety = <<"s", "a", "f", "e">>)

NoEmptySegment(id) == ~Contains(id, <<"-", "-">>) /\ ~HasSuffix(id, <<"-">>)

WellFormedFor(module, id) ==
    HasPrefix(id, <<"b", "m", "a", "d", "-">> \o module \o <<"-">>) /\ NoEmptySegment(id)

\* C4: every identifier a phase produced starts with bmad-<module>- for a
\* module of the run and has no empty segment.
C4_IdentifiersWellFormed ==
    \A r \in rendered :
        r.area # "index" =>
            \E i \in 1..Len(cfg.modules) : WellFormedFor(cfg.modules[i], r.id)

\* C5: no two workflow files of a run get the same skill identifier: the
\* skill identifiers of the report are pairwise different.
C5_NoSlugCollision ==
    \A i, j \in 1..Len(report.skills) :
        i # j => report.skills[i] # report.skills[j]

ClassifierTiers == {<<"s", "a", "f", "e">>, <<"n", "e", "u", "t", "r", "a", "l">>, <<"d", "e", "s", "t", "r", "u", "c", "t", "i", "v", "e">>}

\* C6: every rendered agent record carries one of the three classifier
\* tiers, never yolo, and the capability list of that tier, which is not
\* empty.
C6_TierTotal ==
    \A r \in Rendered("agents") :
        /\ r.text.vals.safety \in ClassifierTiers
        /\ r.text.enabled_tools = ToolsFor(r.text.vals.safety)
        /\ r.text.enabled_tools # <<>>

C6_Witness ==
    /\ Exited
    /\ \E r \in PersonaRecords : r.text.vals.safety = <<"n", "e", "u", "t", "r", "a", "l">>
    /\ \E r \in PersonaRecords : r.text.vals.safety = <<"d", "e", "s", "t", "r", "u", "c", "t", "i", "v", "e">>
    /\ \E r \in ShortcutRecords : r.text.vals.safety = <<"d", "e", "s", "t", "r", "u", "c", "t", "i", "v", "e">>

\* the identifier that was classified for a rendered agent record of a module
Classified(module, id) == TrimPrefix(id, <<"b", "m", "a", "d", "-">> \o module \o <<"-">>)

\* C7: a rendered agent record whose classified identifier is a key of the
\* override table carries the table's tier, persona or shortcut; a persona
\* absent from the table is neutral.
C7_OverrideWins ==
    \A r \in Rendered("agents") : \A i \in 1..Len(cfg.modules) :
        LET module == cfg.modules[i]
            n == Classified(module, r.id)
        IN HasPrefix(r.id, <<"b", "m", "a", "d", "-">> \o module \o <<"-">>) =>
              /\ n \in DOMAIN agentSafetyMap =>
                    r.text.vals.safety = agentSafetyMap[n]
              /\ (n \notin DOMAIN agentSafetyMap /\ r.text.header = "agent") =>
                    r.text.vals.safety = <<"n", "e", "u", "t", "r", "a", "l">>

Artifacts(rs) == {r \in rs : r.area \in {"agents", "prompts", "skills"}}

\* C8: a preview run and the persisting run that follows it on the same
\* sources and the same empty store render the same (identifier, text) pairs.
C8_PreviewEquivalence ==
    (/\ Exited /\ prev.ran /\ prev.dryRun /\ ~cfg.dryRun
     /\ prev.startStore = EmptyStore /\ faults = NoFaults)
        => Artifacts(rendered) = Artifacts(prev.rendered)

\* C9: in a preview run the store stays what it was when the run started.
C9_PreviewWritesNothing ==
    cfg.dryRun => store = startStore

C9_Witness ==
    /\ Exited /\ cfg.dryRun
    /\ startStore = UsedStore
    /\ Rendered("skills") # {} /\ ShortcutRecords # {} /\ PersonaRecords # {}
    /\ source.method[Bmm].subs # {}

\* C10: a second persisting run on the same sources with no I/O failure
\* leaves the store as the first persisting run left it.
C10_Idempotent ==
    (Exited /\ prev.ran /\ ~prev.dryRun /\ ~cfg.dryRun /\ faults = NoFaults)
        => store = prev.store

C10_Witness ==
    /\ Exited /\ prev.ran /\ ~prev.dryRun /\ ~cfg.dryRun /\ faults = NoFaults
    /\ store.index.exists
    /\ \E k \in DOMAIN store.agents : store.agents[k].header = "workflow shortcut"
    /\ \E k \in DOMAIN store.agents : store.agents[k].header = "agent"
    /\ prev.report.agents # report.agents

\* the agent records validate reads: agents/bmad-*.toml
Globbed == {k \in DOMAIN store.agents : HasPrefix(k, <<"b", "m", "a", "d", "-">>)}

PromptId(k) == extractTOMLVal(store.agents[k], "system_prompt_id")

\* the record has the four mandatory fields and one of the four tiers
WellFormedRecord(k) ==
    /\ \A i \in 1..Len(RequiredFields) : HasField(store.agents[k], RequiredFields[i])
    /\ extractTOMLVal(store.agents[k], "safety") \in ValidSafety

\* the record names a prompt document that does not exist
GhostPrompt(k) == PromptId(k) # <<>> /\ ~fileExists(store, "prompts", PromptId(k))

\* the validator's errors about one agent file
ErrorsFor(k) == {i \in Errors(ValidatorKinds) : report.errors[i].file = k}

ExactlyOneGhostError(k) ==
    /\ Cardinality(ErrorsFor(k)) = 1
    /\ \A i \in ErrorsFor(k) :
          report.errors[i].kind = "prompt not found"
              /\ report.errors[i].arg = PromptId(k)
    /\ outcome.code # 0

\* C11 as stated: whatever the store and the run, a well-formed agent record
\* naming a missing prompt gets exactly one validator error, which names the
\* agent file and the prompt, and the process exits non-zero.
C11_GhostPromptAnyStore ==
    Exited => \A k \in DOMAIN store.agents :
                 (WellFormedRecord(k) /\ GhostPrompt(k)) => ExactlyOneGhostError(k)

\* C11 amended: this holds in a persisting run for the agent records named
\* bmad-*.toml, the ones validate reads; a dry run skips validation.
C11_GhostPromptGlobbed ==
    (Exited /\ ~cfg.dryRun) =>
        \A k \in Globbed :
            (WellFormedRecord(k) /\ GhostPrompt(k)) => ExactlyOneGhostError(k)

C11_Witness ==
    /\ Exited /\ ~cfg.dryRun
    /\ \E k \in Globbed :
          WellFormedRecord(k) /\ GhostPrompt(k) /\ HasShortcutMarker(store.agents[k])
    /\ \E k \in Globbed :
          WellFormedRecord(k) /\ GhostPrompt(k) /\ ~HasShortcutMarker(store.agents[k])
    /\ \E i \in Errors({"prompt not found"}) :
          report.errors[i].arg = <<"b", "m", "a", "d", "-", "d", "e", "m", "o", "-", "g", "h", "o", "s", "t">>

\* the agent records rendered for bundles/demo/agents/analyst.xml
AnalystRecords == {r \in Rendered("agents") : r.id = <<"b", "m", "a", "d", "-", "d", "e", "m", "o", "-", "a", "n", "a", "l", "y", "s", "t">>}

\* C12 as stated: converting module demo with the persona analyst.xml gives
\* the agent bmad-demo-analyst with tier neutral, auto_approve false and the
\* neutral tier's capability list, of four tools.
C12_AnalystNeutral ==
    Exited =>
        /\ AnalystRecords # {}
        /\ \A r \in AnalystRecords :
              /\ r.text.vals.safety = <<"n", "e", "u", "t", "r", "a", "l">>
              /\ ~r.text.auto_approve
              /\ r.text.enabled_tools = ToolsFor(<<"n", "e", "u", "t", "r", "a", "l">>)
              /\ Len(r.text.enabled_tools) = 4

\* C12 amended: analyst is a key of the override table, so the agent
\* bmad-demo-analyst has tier safe, auto_approve true and the safe tier's
\* capability list, of four tools; its description is synthesized.
C12_AnalystSafe ==
    Exited =>
        /\ AnalystRecords # {}
        /\ \A r \in AnalystRecords :
              /\ r.text.vals.safety = <<"s", "a", "f", "e">>
              /\ r.text.auto_approve
              /\ r.text.enabled_tools = ToolsFor(<<"s", "a", "f", "e">>)
              /\ Len(r.text.enabled_tools) = 4
              /\ r.text.vals.description = <<"B", "M", "A", "D", " ", "D", "E", "M", "O", " ", "a", "g", "e", "n", "t", ":", " ", "A", "n", "a", "l", "y", "s", "t">>

C12_Witness ==
    /\ Exited /\ ~cfg.dryRun
    /\ fileExists(store, "agents", <<"b", "m", "a", "d", "-", "d", "e", "m", "o", "-", "a", "n", "a", "l", "y", "s", "t">>)
    /\ \E r \in AnalystRecords : store.agents[r.id] = r.text

\* validate reported an error of this kind, with this argument, about file k
Reported(k, kind, arg) ==
    \E i \in ErrorsFor(k) :
        report.errors[i].kind = kind /\ report.errors[i].arg = arg

\* C13: in a persisting run every violated condition of check 1 on an agent
\* record is reported as its own error, also when one record violates
\* several of them: a missing system_prompt_id, each missing mandatory field,
\* a safety that is none of the four tiers.
C13_ChecksAdditive ==
    (Exited /\ ~cfg.dryRun) =>
        \A k \in Globbed :
            /\ PromptId(k) = <<>> => Reported(k, "missing system_prompt_id", <<>>)
            /\ \A i \in 1..Len(RequiredFields) :
                  ~HasField(store.agents[k], RequiredFields[i])
                      => Reported(k, "missing field", KeyChars(RequiredFields[i]))
            /\ extractTOMLVal(store.agents[k], "safety") \notin ValidSafety
                  => Reported(k, "invalid safety",
                              extractTOMLVal(store.agents[k], "safety"))

\* the skill slug quoted by the prompt paired with agent record k names an
\* existing skill directory
SkillResolves(k) ==
    /\ fileExists(store, "prompts", PromptId(k))
    /\ SkillPointer(store.prompts[PromptId(k)]) # <<>>
    /\ dirExists(store, SkillPointer(store.prompts[PromptId(k)]))

\* C14: in a persisting run validate reports an error about every agent
\* record tagged as a workflow shortcut, unless its paired prompt exists and
\* quotes the slug of an existing skill directory.
C14_ShortcutErrorUnlessResolved ==
    (Exited /\ ~cfg.dryRun) =>
        \A k \in Globbed :
            HasShortcutMarker(store.agents[k]) =>
                (SkillResolves(k) \/ ErrorsFor(k) # {})

\* the report holds an error about this item
ErrorNames(item) == \E i \in 1..Len(report.errors) : report.errors[i].file = item

\* the items of the source tree of a module whose read fails in this run
FailedPersonas(module) ==
    {e \in source.bundles[module].entries :
        ~e.isDir /\ HasSuffix(e.name, <<".", "x", "m", "l">>) /\ e.name \in faults.personas}
FailedWorkflows(module) ==
    {f \in source.method[module].workflows.entries :
        IsWorkflowFile(BaseName(f.path)) /\ f.path \in faults.workflows}
FailedTasks(module) ==
    {e \in source.method[module].tasks.entries :
        ~e.isDir /\ HasSuffix(e.name, <<".", "m", "d">>) /\ e.name \in faults.tasks}

\* C15: when the run has ended, every read of a persona, workflow or task
\* that failed, every writeFile that failed and every data copy that failed
\* has an error in the report about that item.
C15_EveryFailureIsAnError ==
    Exited =>
        \A i \in 1..Len(cfg.modules) :
            LET module == cfg.modules[i]
            IN /\ \A e \in FailedPersonas(module) :
                     ErrorNames(TrimSuffix(e.name, <<".", "x", "m", "l">>))
               /\ \A f \in FailedWorkflows(module) : ErrorNames(Rel(f.path))
               /\ \A e \in FailedTasks(module) :
                     ErrorNames(TrimSuffix(e.name, <<".", "m", "d">>))
               /\ \A r \in rendered :
                     (~cfg.dryRun /\ WriteFails(faults, r.area)) => ErrorNames(r.id)
               /\ (~cfg.dryRun /\ "copy data" \in faults.writes
                      /\ source.method[module].subs # {})
                     => \E j \in 1..Len(report.errors) : report.errors[j].kind = "copy"

\* this identifier is listed in the report as a workflow shortcut agent
ListedAsShortcut(id) ==
    \E i \in 1..Len(report.agents) : report.agents[i] = id \o <<" ", "(", "w", "o", "r", "k", "f", "l", "o", "w", ")">>

\* C16: in a persisting run, once phase 1 has written a persona's agent
\* record, the store keeps that record and the persona's prompt, and no
\* shortcut agent with the same identifier is rendered or listed; an agent
\* record that was in the store when the run started is never replaced by a
\* shortcut agent either.
C16_ShortcutNeverOverwrites ==
    /\ (~cfg.dryRun /\ "write agents" \notin faults.writes) =>
          \A r \in PersonaRecords :
              /\ fileExists(store, "agents", r.id) /\ store.agents[r.id] = r.text
              /\ \A p \in Rendered("prompts") : p.id = r.id => p.text.header = "agent"
              /\ \A q \in ShortcutRecords : q.id # r.id
              /\ ~ListedAsShortcut(r.id)
    /\ \A k \in DOMAIN startStore.agents :
          /\ \A q \in ShortcutRecords : q.id # k
          /\ ~ListedAsShortcut(k)
          /\ (\A r \in PersonaRecords : r.id # k) =>
                (fileExists(store, "agents", k) /\ store.agents[k] = startStore.agents[k])

\* a persona dev and a workflow dev/workflow.md of the same module, and a
\* workflow pm/workflow.md for which the store already held an agent record
C16_Witness ==
    /\ Exited /\ ~cfg.dryRun /\ startStore = UsedStore
    /\ \E r \in PersonaRecords : r.id = <<"b", "m", "a", "d", "-", "b", "m", "m", "-", "d", "e", "v">>
    /\ \E f \in source.method[Bmm].workflows.entries :
          f.path = <<<<"d", "e", "v">>, <<"w", "o", "r", "k", "f", "l", "o", "w", ".", "m", "d">>>>
    /\ \E f \in source.method[Bmm].workflows.entries :
          f.path = <<<<"p", "m">>, <<"w", "o", "r", "k", "f", "l", "o", "w", ".", "m", "d">>>>
    /\ store.agents[<<"b", "m", "a", "d", "-", "b", "m", "m", "-", "d", "e", "v">>].header = "agent"
    /\ store.prompts[<<"b", "m", "a", "d", "-", "b", "m", "m", "-", "d", "e", "v">>].header = "agent"
    /\ ShortcutRecords # {}

\* the steps of main() before generateAgentsMD has run, and after it
BeforeIndex == {"ensureDirs", "agents", "workflows", "tasks", "shortcuts", "copy", "index"}
AfterIndex == {"validate", "report", "exited"}

\* the rows of AGENTS.md, both tables
IndexRows == store.index.content.persona \o store.index.content.workflow

\* C17: AGENTS.md is not written while agent records are still being
\* written, and nothing is validated before it is; once generateAgentsMD has
\* run in a persisting run, AGENTS.md holds exactly one row for each agent
\* record file of the agents directory.
C17_IndexAfterAgentsBeforeValidation ==
    /\ pc \in BeforeIndex =>
          (store.index = startStore.index /\ Errors(ValidatorKinds) = {})
    /\ (pc \in AfterIndex /\ ~cfg.dryRun /\ "write index" \notin faults.writes) =>
          /\ store.index.exists
          /\ Len(IndexRows) = Cardinality(DOMAIN store.agents)
          /\ {IndexRows[i].slug : i \in 1..Len(IndexRows)} = DOMAIN store.agents
          /\ \A r \in Rendered("agents") :
                "write agents" \notin faults.writes =>
                    \E i \in 1..Len(IndexRows) : IndexRows[i].slug = r.id

C17_Witness ==
    /\ pc = "validate" /\ ~cfg.dryRun /\ startStore = UsedStore
    /\ store.index.exists
    /\ store.index.content.persona # <<>> /\ store.index.content.workflow # <<>>
    /\ \E r \in PersonaRecords : r.id = <<"b", "m", "a", "d", "-", "b", "m", "m", "-", "d", "e", "v">>
    /\ \E r \in ShortcutRecords : r.id = <<"b", "m", "a", "d", "-", "d", "e", "m", "o", "-", "p", "l", "a", "n", "n", "i", "n", "g", "-", "c", "r", "e", "a", "t", "e", "-", "s", "p", "e", "c">>
    /\ \E i \in 1..Len(IndexRows) : IndexRows[i].slug = <<"c", "u", "s", "t", "o", "m">>

\* a directory segment without its structural prefixes
Stripped(segment) == TrimPrefix(TrimPrefix(segment, <<"w", "o", "r", "k", "f", "l", "o", "w", "-">>), <<"b", "m", "a", "d", "-">>)

Contributes(part) == part # <<>> /\ part # <<".">>

\* the directory segments of a file given by its path segments
DirSegments(path) == SubSeq(path, 1, Len(path) - 1)

\* the segments the statement lists: the prefix, the stripped directory
\* segments that are left, the stem of a workflow-<stem>.md name
Segments(module, path) ==
    LET dirs == DirSegments(path)
        name == path[Len(path)]
    IN <<<<"b", "m", "a", "d", "-">> \o module>>
       \o SelectSeq([i \in 1..Len(dirs) |-> Stripped(dirs[i])], Contributes)
       \o (IF HasPrefix(name, <<"w", "o", "r", "k", "f", "l", "o", "w", "-">>)
           THEN <<TrimSuffix(TrimPrefix(name, <<"w", "o", "r", "k", "f", "l", "o", "w", "-">>), <<".", "m", "d">>)>>
           ELSE <<>>)

\* the workflow files of a module that convertWorkflows has converted so far
Converted(i) ==
    IF (pc = "workflows" /\ mi <= i) \/ pc \in {"ensureDirs", "agents"}
    THEN {}
    ELSE {f \in source.method[cfg.modules[i]].workflows.entries :
             IsWorkflowFile(BaseName(f.path)) /\ f.path \notin faults.workflows}

\* C18: the skill rendered for a workflow file has the identifier made of
\* bmad-<module>, the directory segments that are not empty and not "." once
\* stripped, and the stem of a workflow-<stem>.md name, joined by "-", which is
\* what buildSkillSlug returns; planning/workflow-create-spec.md in module
\* demo gives bmad-demo-planning-create-spec.
C18_SlugFormula ==
    /\ \A i \in 1..Len(cfg.modules) :
          \A f \in source.method[cfg.modules[i]].workflows.entries :
              (pc = "workflows" /\ IsWorkflowFile(BaseName(f.path))) =>
                  buildSkillSlug(cfg.modules[i], Rel(f.path), BaseName(f.path))
                      = Join(Segments(cfg.modules[i], f.path), <<"-">>)
    /\ \A i \in 1..Len(cfg.modules) :
          \A f \in Converted(i) :
              \E r \in Rendered("skills") :
                  /\ r.id = Join(Segments(cfg.modules[i], f.path), <<"-">>)
                  /\ r.text.content = f.content
    /\ pc \in {"tasks", "shortcuts", "copy", "index", "validate", "report", "exited"} =>
          \E r \in Rendered("skills") :
              r.id = <<"b", "m", "a", "d", "-", "d", "e", "m", "o", "-", "p", "l", "a", "n", "n", "i", "n", "g", "-", "c", "r", "e", "a", "t", "e", "-", "s", "p", "e", "c">> /\ r.text.content = "create-spec"

\* a file at the root, a file below two directories, a segment that strips
\* to nothing and a stem have all been converted
C18_Witness ==
    /\ Exited
    /\ \E f \in Converted(1) : Len(f.path) = 1
    /\ \E f \in Converted(1) : Len(f.path) = 3
    /\ \E r \in Rendered("skills") : r.id = <<"b", "m", "a", "d", "-", "d", "e", "m", "o", "-", "c", "o", "r", "e", "-", "p", "l", "a", "n">>
    /\ \E r \in Rendered("skills") : r.id = <<"b", "m", "a", "d", "-", "d", "e", "m", "o", "-", "p", "l", "a", "n", "n", "i", "n", "g", "-", "c", "r", "e", "a", "t", "e", "-", "s", "p", "e", "c">>
    /\ \E r \in Rendered("skills") : r.id = <<"b", "m", "a", "d", "-", "b", "m", "m">>

====
